---- MODULE Spec2Model ----
(***************************************************************************)
(* Model of the errx package (github.com/hamidghavidel/errx).              *)
(*                                                                         *)
(* Two variants of the package are modelled:                               *)
(*   - the functional-options API (New / Wrap / WithHTTPCode / ...), whose  *)
(*     CustomError is used both by value and through a pointer;            *)
(*   - the method-based API of errx.go, whose *CustomError is a mutable     *)
(*     heap object.                                                         *)
(*                                                                         *)
(* Go error values are records.  A pointer-typed error carries the address *)
(* of its allocation in the field id, so that record equality is Go's ==   *)
(* on interface values: same dynamic type, and same address (pointers) or  *)
(* same fields (the CustomError struct).  A display text is a sequence of  *)
(* tokens; the tokens are the messages and the separator ": ".             *)
(***************************************************************************)
EXTENDS Integers, Sequences, FiniteSets, TLC

\* ---------------------------------------------------------------- bounds
MaxOpts == 2        \* longest list of properties passed to New or Wrap
MaxWraps == 2       \* most Wrap calls made in a row on one error
MaxObjs == 2        \* most CustomError objects of errx.go on the heap

\* ------------------------------------------------------- input alphabets
Msgs == {<<"m1">>, <<"m2">>}            \* messages passed to New and Wrap
PlainMsgs == {<<"original error">>}     \* texts of errors made outside errx
HTTPCodes == {404, 500}
CustomCodes == {1001}
Sep == ": "

\* context.Context values: the zero interface value, context.Background(),
\* and a request context.
NilCtx == "nil"
Background == "context.Background"
ReqCtx == "request"

\* ------------------------------------------------------------ Go values
NilErr == [kind |-> "nil"]

\* struct literal CustomError{base, Message, HTTPCode, CustomCode, CTX}
CustomError(base, Message, HTTPCode, CustomCode, CTX) ==
  [kind |-> "CustomError", base |-> base, Message |-> Message,
   HTTPCode |-> HTTPCode, CustomCode |-> CustomCode, CTX |-> CTX]

\* &CustomError{...}: a pointer to a CustomError allocated at address id
PtrCustomError(id, elem) == [kind |-> "*CustomError", id |-> id, elem |-> elem]

\* fmt.Errorf(text) / errors.New(text) of the standard library
errorString(id, msg) == [kind |-> "*errorString", id |-> id, msg |-> msg]

\* github.com/pkg/errors: New gives *fundamental, Wrap gives
\* &withStack{&withMessage{cause, msg}}
fundamental(id, msg) == [kind |-> "*fundamental", id |-> id, msg |-> msg]
withMessage(id, cause, msg) ==
  [kind |-> "*withMessage", id |-> id, cause |-> cause, msg |-> msg]
withStack(id, err) == [kind |-> "*withStack", id |-> id, err |-> err]

errorsNew(msg, id) == fundamental(id, msg)

errorsWrap(err, message, id) ==
  IF err = NilErr THEN NilErr
  ELSE withStack(id + 1, withMessage(id, err, message))

\* the largest address used inside an error value (0 when there is none)
RECURSIVE MaxId(_)
MaxId(e) ==
  CASE e.kind = "nil" -> 0
    [] e.kind = "CustomError" -> MaxId(e.base)
    [] e.kind = "*CustomError" ->
         IF e.id > MaxId(e.elem) THEN e.id ELSE MaxId(e.elem)
    [] e.kind = "*withMessage" ->
         IF e.id > MaxId(e.cause) THEN e.id ELSE MaxId(e.cause)
    [] e.kind = "*withStack" ->
         IF e.id > MaxId(e.err) THEN e.id ELSE MaxId(e.err)
    [] OTHER -> e.id

\* an address no live object occupies
FreshId(e) == MaxId(e) + 1

\* ------------------------------------------------- methods of the values
\* func (e CustomError) Error() string, and Error() of the other types
RECURSIVE Error(_)
Error(e) ==
  CASE e.kind = "CustomError" ->
         (IF e.base = NilErr THEN <<>> ELSE Error(e.base)) \o <<Sep>> \o e.Message
    [] e.kind = "*CustomError" -> Error(e.elem)
    [] e.kind = "*withMessage" -> e.msg \o <<Sep>> \o Error(e.cause)
    [] e.kind = "*withStack" -> Error(e.err)
    [] OTHER -> e.msg

\* func (e CustomError) Cause() error
Cause(e) == IF e.kind = "*CustomError" THEN e.elem.base ELSE e.base

\* Only the pkg/errors wrappers have an Unwrap method; CustomError has none.
HasUnwrap(e) == e.kind \in {"*withMessage", "*withStack"}
Unwrap(e) == IF e.kind = "*withStack" THEN e.err ELSE e.cause

\* errors.As(err, &customErr) with var customErr CustomError: the first
\* error of the Unwrap chain whose dynamic type is assignable to CustomError.
RECURSIVE As(_)
As(err) ==
  IF err = NilErr THEN [ok |-> FALSE, val |-> NilErr]
  ELSE IF err.kind = "CustomError" THEN [ok |-> TRUE, val |-> err]
  ELSE IF HasUnwrap(err) THEN As(Unwrap(err))
  ELSE [ok |-> FALSE, val |-> NilErr]

\* errors.Is(err, target): == along the Unwrap chain
RECURSIVE Is(_, _)
Is(err, target) ==
  IF err = NilErr \/ target = NilErr THEN err = target
  ELSE IF err = target THEN TRUE
  ELSE IF HasUnwrap(err) THEN
         (IF Unwrap(err) = NilErr THEN FALSE ELSE Is(Unwrap(err), target))
  ELSE FALSE

\* ------------------------------------------------------------ properties
Property(opt, code, ctx) == [opt |-> opt, code |-> code, ctx |-> ctx]

Properties ==
  {Property("WithHTTPCode", c, NilCtx) : c \in HTTPCodes}
    \cup {Property("WithCustomCode", c, NilCtx) : c \in CustomCodes}
    \cup {Property("WithContext", 0, ReqCtx)}

PropertyLists == UNION {[1..n -> Properties] : n \in 0..MaxOpts}

\* a WithHTTPCode that leaves an HTTP code already set in place
WithHTTPCodeFirstWins(httpCode, err) ==
  LET customErr == As(err) IN
    IF customErr.ok
    THEN (IF customErr.val.HTTPCode # 0 THEN customErr.val
          ELSE [customErr.val EXCEPT !.HTTPCode = httpCode])
    ELSE CustomError(NilErr, Error(err), httpCode, 0, NilCtx)

WithHTTPCode(httpCode, err) ==
  LET customErr == As(err) IN
    IF customErr.ok THEN [customErr.val EXCEPT !.HTTPCode = httpCode]
    ELSE CustomError(NilErr, Error(err), httpCode, 0, NilCtx)

WithCustomCode(customCode, err) ==
  LET customErr == As(err) IN
    IF customErr.ok THEN [customErr.val EXCEPT !.CustomCode = customCode]
    ELSE CustomError(NilErr, Error(err), 0, customCode, NilCtx)

WithContext(ctx, err) ==
  LET customErr == As(err) IN
    IF customErr.ok THEN [customErr.val EXCEPT !.CTX = ctx]
    ELSE CustomError(NilErr, Error(err), 0, 0, ctx)

\* property(result)
Apply(property, err) ==
  CASE property.opt = "WithHTTPCode" -> WithHTTPCode(property.code, err)
    [] property.opt = "WithCustomCode" -> WithCustomCode(property.code, err)
    [] property.opt = "WithContext" -> WithContext(property.ctx, err)

\* for _, property := range properties { result = property(result) }
\* The value is the sequence of the results of the successive calls.
RECURSIVE ApplyAll(_, _)
ApplyAll(properties, result) ==
  IF properties = <<>> THEN <<>>
  ELSE LET r == Apply(Head(properties), result) IN
         <<r>> \o ApplyAll(Tail(properties), r)

Final(seed, applied) == IF applied = <<>> THEN seed ELSE applied[Len(applied)]

\* A call is recorded with the value the loop started from (seed), the
\* result of each property call (applied) and the value returned (ret).
Run(seed, applied, ret) == [seed |-> seed, applied |-> applied, ret |-> ret]

New(msg, properties, id) ==
  IF Len(properties) = 0 THEN Run(NilErr, <<>>, errorsNew(msg, id))
  ELSE LET seed == CustomError(NilErr, msg, 0, 0, Background)
           applied == ApplyAll(properties, seed)
       IN Run(seed, applied, Final(seed, applied))

\* a Wrap without the nil guard, which builds the new link around a nil cause
WrapWithoutNilGuard(err, msg, properties, id) ==
  LET customErr == As(err) IN
    IF customErr.ok \/ err = NilErr
    THEN LET seed == PtrCustomError(id, CustomError(customErr.val, msg, 0, 0, NilCtx))
             applied == ApplyAll(properties, seed)
         IN Run(seed, applied, Final(seed, applied))
    ELSE Run(NilErr, <<>>, errorsWrap(err, msg, id))

Wrap(err, msg, properties, id) ==
  IF err = NilErr THEN Run(NilErr, <<>>, NilErr)
  ELSE LET customErr == As(err) IN
    IF customErr.ok
    THEN LET seed == PtrCustomError(id, CustomError(customErr.val, msg, 0, 0, NilCtx))
             applied == ApplyAll(properties, seed)
         IN Run(seed, applied, Final(seed, applied))
    ELSE Run(NilErr, <<>>, errorsWrap(err, msg, id))

\* ------------------------------------------- errx.go, the method-based API
\* There New returns a *CustomError, a mutable object.  The heap is the
\* sequence of the objects allocated so far; a *CustomError value is the
\* index of its object.
MObject(base, message, httpCode, customCode, ctx) ==
  [base |-> base, message |-> message, httpCode |-> httpCode,
   customCode |-> customCode, ctx |-> ctx]

MRef(id) == [kind |-> "*CustomError", id |-> id]

\* func New(msg string) error: the object New allocates
MNew(msg) == MObject(NilErr, msg, 0, 0, Background)

\* func (e *CustomError) Error() string, and Error() of a plain error
MError(h, e) == IF e.kind = "*CustomError" THEN h[e.id].message ELSE e.msg

\* func (e *CustomError) Unwrap() error
MUnwrap(h, e) == h[e.id].base

\* func (e *CustomError) Cause() error
MCause(h, e) == h[e.id].base

\* errors.Is of the standard library: ==, then the Is method, then Unwrap.
\* Only *CustomError has the two methods, and its Is method is
\* func (e *CustomError) Is(err error) bool { return errors.Is(e.base, err) }
RECURSIVE StdIs(_, _, _)
StdIs(h, err, target) ==
  IF err = NilErr \/ target = NilErr THEN err = target
  ELSE IF err = target THEN TRUE
  ELSE IF err.kind = "*CustomError" THEN
         \/ StdIs(h, h[err.id].base, target)
         \/ (MUnwrap(h, err) # NilErr /\ StdIs(h, MUnwrap(h, err), target))
  ELSE FALSE

MIs(h, e, err) == StdIs(h, h[e.id].base, err)

\* func (e *CustomError) Wrap(err error) error: the heap after the call, and
\* the value returned
MWrap(h, e, err) ==
  [heap |-> [h EXCEPT ![e.id].base = err], ret |-> err]

MWithHttpCode(h, e, httpCode) ==
  [heap |-> [h EXCEPT ![e.id].httpCode = httpCode], ret |-> e]

MWithCustomCode(h, e, customCode) ==
  [heap |-> [h EXCEPT ![e.id].customCode = customCode], ret |-> e]

MWithContext(h, e, ctx) ==
  [heap |-> [h EXCEPT ![e.id].ctx = ctx], ret |-> e]

\* whether the chain of bases starting at err passes through the object e
RECURSIVE Reaches(_, _, _)
Reaches(h, err, e) ==
  IF err = NilErr THEN FALSE
  ELSE IF err = e THEN TRUE
  ELSE IF err.kind = "*CustomError" THEN Reaches(h, h[err.id].base, e)
  ELSE FALSE

\* ----------------------------------------------------------------- state
VARIABLES
  cur,       \* the error value the caller holds (nil at first)
  last,      \* the last call: its name, arguments and Run
  roots,     \* the errors cur was obtained from by Wrap calls without properties
  usedCtx,   \* whether WithContext took part in building cur
  wraps,     \* the number of Wrap calls made on cur since it was created
  heap,      \* errx.go: the CustomError objects allocated so far
  mlast      \* errx.go: the last method call, its receiver, argument and result

fvars == <<cur, last, roots, usedCtx, wraps>>
mvars == <<heap, mlast>>
vars == <<cur, last, roots, usedCtx, wraps, heap, mlast>>

Call(op, arg, msg, properties, run) ==
  [op |-> op, arg |-> arg, msg |-> msg, props |-> properties,
   seed |-> run.seed, applied |-> run.applied, ret |-> run.ret]

HasContextProperty(properties) ==
  \E i \in 1..Len(properties) : properties[i].opt = "WithContext"

MCall(op, recv, arg, ret) == [op |-> op, recv |-> recv, arg |-> arg, ret |-> ret]

Init ==
  /\ cur = NilErr
  /\ last = Call("none", NilErr, <<>>, <<>>, Run(NilErr, <<>>, NilErr))
  /\ roots = {}
  /\ usedCtx = FALSE
  /\ wraps = 0
  /\ heap = <<>>
  /\ mlast = MCall("none", NilErr, NilErr, NilErr)

\* err := fmt.Errorf("original error")
PlainError ==
  /\ cur = NilErr
  /\ \E msg \in PlainMsgs :
    LET e == errorString(1, msg) IN
      /\ cur' = e
      /\ last' = Call("Errorf", NilErr, msg, <<>>, Run(NilErr, <<>>, e))
      /\ roots' = {}
      /\ usedCtx' = FALSE
      /\ wraps' = 0
      /\ UNCHANGED mvars

\* err := errx.New(msg, properties...)
NewCall ==
  /\ cur = NilErr
  /\ \E msg \in Msgs, properties \in PropertyLists :
    LET run == New(msg, properties, 1) IN
      /\ cur' = run.ret
      /\ last' = Call("New", NilErr, msg, properties, run)
      /\ roots' = {}
      /\ usedCtx' = HasContextProperty(properties)
      /\ wraps' = 0
      /\ UNCHANGED mvars

\* err = errx.Wrap(err, msg, properties...)
WrapCall ==
  /\ wraps < MaxWraps
  /\ \E msg \in Msgs, properties \in PropertyLists :
       LET run == Wrap(cur, msg, properties, FreshId(cur)) IN
         /\ cur' = run.ret
         /\ last' = Call("Wrap", cur, msg, properties, run)
         /\ roots' = IF cur # NilErr /\ properties = <<>>
                     THEN roots \cup {cur} ELSE {}
         /\ usedCtx' = (usedCtx \/ HasContextProperty(properties))
         /\ wraps' = wraps + 1
         /\ UNCHANGED mvars

\* err = nil: the caller is done with the error it holds
Discard ==
  /\ cur # NilErr
  /\ cur' = NilErr
  /\ last' = Call("none", NilErr, <<>>, <<>>, Run(NilErr, <<>>, NilErr))
  /\ roots' = {}
  /\ usedCtx' = FALSE
  /\ wraps' = 0
  /\ UNCHANGED mvars

Next == PlainError \/ NewCall \/ WrapCall \/ Discard

Spec == Init /\ [][Next]_vars

\* ------------------------------------------------ errx.go: the operations
MRefs == {MRef(i) : i \in 1..Len(heap)}
MPlainErrors == {errorString(0, msg) : msg \in PlainMsgs}

\* e := errx.New(msg)
MNewCall ==
  /\ Len(heap) < MaxObjs
  /\ \E msg \in Msgs :
       /\ heap' = Append(heap, MNew(msg))
       /\ mlast' = MCall("New", NilErr, NilErr, MRef(Len(heap) + 1))
  /\ UNCHANGED fvars

\* e.Wrap(err); a chain of causes that loops is the caller's error
MWrapCall ==
  /\ \E e \in MRefs, err \in MRefs \cup MPlainErrors \cup {NilErr} :
       /\ ~Reaches(heap, err, e)
       /\ LET r == MWrap(heap, e, err) IN
            /\ heap' = r.heap
            /\ mlast' = MCall("Wrap", e, err, r.ret)
  /\ UNCHANGED fvars

MWithHttpCodeCall ==
  /\ \E e \in MRefs, httpCode \in HTTPCodes :
       LET r == MWithHttpCode(heap, e, httpCode) IN
         /\ heap' = r.heap
         /\ mlast' = MCall("WithHttpCode", e, NilErr, r.ret)
  /\ UNCHANGED fvars

MWithCustomCodeCall ==
  /\ \E e \in MRefs, customCode \in CustomCodes :
       LET r == MWithCustomCode(heap, e, customCode) IN
         /\ heap' = r.heap
         /\ mlast' = MCall("WithCustomCode", e, NilErr, r.ret)
  /\ UNCHANGED fvars

MWithContextCall ==
  /\ \E e \in MRefs, ctx \in {Background, ReqCtx} :
       LET r == MWithContext(heap, e, ctx) IN
         /\ heap' = r.heap
         /\ mlast' = MCall("WithContext", e, NilErr, r.ret)
  /\ UNCHANGED fvars

MNext ==
  MNewCall \/ MWrapCall \/ MWithHttpCodeCall \/ MWithCustomCodeCall \/ MWithContextCall

SpecM == Init /\ [][MNext]_vars

\* ================================================================ claims
\* what a reader of an enriched error sees, by value or through a pointer
IsCustomError(e) == e.kind \in {"CustomError", "*CustomError"}
Fields(e) == IF e.kind = "*CustomError" THEN e.elem ELSE e
IsPlain(e) == e.kind \in {"*errorString", "*fundamental"}

\* sub occurs in text
Contains(text, sub) ==
  \E i \in 0..(Len(text) - Len(sub)) :
    \A j \in 1..Len(sub) : text[i + j] = sub[j]

\* the positions of the properties of one kind, and the last of them
Targeting(properties, opt) == {i \in 1..Len(properties) : properties[i].opt = opt}
LastOf(S) == CHOOSE i \in S : \A j \in S : j <= i

\* C1: Wrap(e1, m, options...) over an enriched e1 with at least one option
\* still has e1 as its cause and m as its message.
C1_WrapOptionsKeepCause ==
  (last.op = "Wrap" /\ As(last.arg).ok /\ last.props # <<>>) =>
    /\ IsCustomError(last.ret)
    /\ Cause(last.ret) = As(last.arg).val
    /\ Fields(last.ret).Message = last.msg

\* C2: Wrap(p, m, WithHTTPCode(h)) over a plain p extracts as an enriched
\* error with HTTP code h, and its text contains m and p's text.
C2_PlainWrapAppliesOptions ==
  (/\ last.op = "Wrap" /\ IsPlain(last.arg)
   /\ Len(last.props) = 1 /\ last.props[1].opt = "WithHTTPCode") =>
    /\ As(last.ret).ok
    /\ As(last.ret).val.HTTPCode = last.props[1].code
    /\ Contains(Error(last.ret), last.msg)
    /\ Contains(Error(last.ret), Error(last.arg))

\* C3: for e1 = New(m1, WithHTTPCode(h)) and e2 = Wrap(e1, m2), e2 extracts
\* as an enriched error whose Cause() is an enriched error equal to e1.
C3_WrapExtractsWithCause ==
  (/\ last.op = "Wrap" /\ last.props = <<>>
   /\ \E m1 \in Msgs, h \in HTTPCodes :
        last.arg = New(m1, <<Property("WithHTTPCode", h, NilCtx)>>, 1).ret) =>
    /\ As(last.ret).ok
    /\ As(Cause(As(last.ret).val)).ok
    /\ As(Cause(As(last.ret).val)).val = last.arg

\* C4: Is(e2, e1) for every enriched e1 and every e2 obtained from e1 by one
\* or more Wrap(_, m).
C4_IsFindsWrappedEnriched ==
  \A e1 \in roots : IsCustomError(e1) => Is(cur, e1)

\* C5: New(m, options...) with at least one option extracts as an enriched
\* error with message m, no cause, and in each metadata field the value of
\* the last option that targets it, or the default when none does.
C5_NewLastOptionWins ==
  (last.op = "New" /\ last.props # <<>>) =>
    LET e == As(last.ret)
        http == Targeting(last.props, "WithHTTPCode")
        custom == Targeting(last.props, "WithCustomCode")
        ctx == Targeting(last.props, "WithContext")
    IN /\ e.ok
       /\ e.val.Message = last.msg
       /\ e.val.base = NilErr
       /\ e.val.HTTPCode = IF http = {} THEN 0 ELSE last.props[LastOf(http)].code
       /\ e.val.CustomCode = IF custom = {} THEN 0 ELSE last.props[LastOf(custom)].code
       /\ e.val.CTX = IF ctx = {} THEN Background ELSE last.props[LastOf(ctx)].ctx

C5_Witness ==
  /\ last.op = "New" /\ Len(last.props) = 2
  /\ last.props[1].opt = "WithHTTPCode" /\ last.props[2].opt = "WithHTTPCode"
  /\ last.props[1].code # last.props[2].code
  /\ As(last.ret).ok /\ As(last.ret).val.HTTPCode = last.props[2].code

\* C6: Wrap(nil, m, options...) returns nil and calls no option.
C6_WrapNilIsNil ==
  (last.op = "Wrap" /\ last.arg = NilErr) =>
    last.ret = NilErr /\ last.applied = <<>> /\ cur = NilErr

C6_Witness ==
  /\ last.op = "Wrap" /\ last.arg = NilErr /\ Len(last.props) >= 2
  /\ last.ret = NilErr /\ last.applied = <<>>

\* C7: an enriched error built without WithContext carries the background
\* context, never an absent one.
C7_ContextNeverAbsent ==
  (~usedCtx /\ IsCustomError(cur)) => Fields(cur).CTX = Background

\* C8: the text of Wrap(c, m) without options is c's text, then ": ", then m.
C8_WrapTextCauseFirst ==
  (last.op = "Wrap" /\ last.arg # NilErr /\ last.props = <<>>) =>
    Error(last.ret) = Error(last.arg) \o <<Sep>> \o last.msg

\* C9: in errx.go, e.Wrap(b) returns the wrapping CustomError e, not b: its
\* text is e's message, its Unwrap() and Cause() are b, and Is(b) on it holds.
C9_MethodWrapReturnsWrapper ==
  (mlast.op = "Wrap") =>
    /\ mlast.ret = mlast.recv
    /\ MError(heap, mlast.ret) = heap[mlast.recv.id].message
    /\ MUnwrap(heap, mlast.ret) = mlast.arg
    /\ MCause(heap, mlast.ret) = mlast.arg
    /\ MIs(heap, mlast.ret, mlast.arg)

\* C10: an option applied to an enriched error returns it with the one
\* targeted field set to the option's value and every other field, the
\* message and the cause unchanged.
C10_OptionChangesOneField ==
  \A i \in 1..Len(last.applied) :
    LET in == IF i = 1 THEN last.seed ELSE last.applied[i - 1]
        out == last.applied[i]
        property == last.props[i]
    IN IsCustomError(in) =>
         /\ IsCustomError(out)
         /\ Fields(out) =
              CASE property.opt = "WithHTTPCode" ->
                     [Fields(in) EXCEPT !.HTTPCode = property.code]
                [] property.opt = "WithCustomCode" ->
                     [Fields(in) EXCEPT !.CustomCode = property.code]
                [] property.opt = "WithContext" ->
                     [Fields(in) EXCEPT !.CTX = property.ctx]

====
